---- MODULE Spec2Model ----
(***************************************************************************)
(* Model of the performance-feedback engine of mugic:                      *)
(*   src/src/real_feedback_generator.py  (RealFeedbackGenerator)           *)
(*   src/src/feedback_generator.py       (FeedbackGenerator)               *)
(* generate_feedback is a pipeline of scorers; each scorer is one action.  *)
(***************************************************************************)
EXTENDS Integers, Sequences, FiniteSets, TLC

(***************************************************************************)
(* Python floats.  The scorers compute with IEEE-754 binary64 values and   *)
(* truncate them with int(), so the arithmetic is modelled exactly: a      *)
(* natural number of any size is a little-endian sequence of limbs in base *)
(* 2^15, and a non-negative finite double is [m, e] standing for m * 2^e   *)
(* with m a 53-bit natural (or m = 0).  Every operation forms the exact    *)
(* result and rounds it to 53 bits, ties to even, as the hardware does.    *)
(* Subnormals, infinities and NaN do not arise for the values used here.   *)
(***************************************************************************)
LimbBase == 2^15
MantissaBits == 53

RECURSIVE BNorm(_)
BNorm(a) == IF a = <<>> THEN <<>>
            ELSE IF a[Len(a)] = 0 THEN BNorm(SubSeq(a, 1, Len(a) - 1)) ELSE a

RECURSIVE BFromNat(_)
BFromNat(n) == IF n = 0 THEN <<>> ELSE <<n % LimbBase>> \o BFromNat(n \div LimbBase)

\* value of a natural below 2^30
BToNat(a) == IF Len(a) = 0 THEN 0 ELSE IF Len(a) = 1 THEN a[1] ELSE a[1] + LimbBase * a[2]

RECURSIVE BAddC(_, _, _)
BAddC(a, b, c) ==
  IF a = <<>> /\ b = <<>> THEN (IF c = 0 THEN <<>> ELSE <<c>>)
  ELSE LET x == IF a = <<>> THEN 0 ELSE a[1]
           y == IF b = <<>> THEN 0 ELSE b[1]
           s == x + y + c
       IN <<s % LimbBase>> \o BAddC(IF a = <<>> THEN a ELSE Tail(a),
                                    IF b = <<>> THEN b ELSE Tail(b), s \div LimbBase)

BAdd(a, b) == BAddC(a, b, 0)

\* a - b - c for a >= b + c
RECURSIVE BSubC(_, _, _)
BSubC(a, b, c) ==
  IF a = <<>> THEN <<>>
  ELSE LET y == IF b = <<>> THEN 0 ELSE b[1]
           d == a[1] - y - c
       IN <<IF d < 0 THEN d + LimbBase ELSE d>>
          \o BSubC(Tail(a), IF b = <<>> THEN b ELSE Tail(b), IF d < 0 THEN 1 ELSE 0)

BSub(a, b) == BNorm(BSubC(a, b, 0))

\* -1, 0, 1 as a < b, a = b, a > b (both without leading zero limbs)
RECURSIVE BCmpFrom(_, _, _)
BCmpFrom(a, b, i) == IF i = 0 THEN 0
                     ELSE IF a[i] < b[i] THEN -1
                     ELSE IF a[i] > b[i] THEN 1
                     ELSE BCmpFrom(a, b, i - 1)

BCmp(a, b) == IF Len(a) < Len(b) THEN -1
              ELSE IF Len(a) > Len(b) THEN 1
              ELSE BCmpFrom(a, b, Len(a))

\* a * k + c for a small k
RECURSIVE BMulSmallC(_, _, _)
BMulSmallC(a, k, c) ==
  IF a = <<>> THEN BFromNat(c)
  ELSE LET p == a[1] * k + c
       IN <<p % LimbBase>> \o BMulSmallC(Tail(a), k, p \div LimbBase)

BMulSmall(a, k) == BNorm(BMulSmallC(a, k, 0))

BDouble(a) == BAddC(a, a, 0)

RECURSIVE BHalfR(_)
BHalfR(a) ==
  IF a = <<>> THEN <<>>
  ELSE <<(a[1] \div 2) + (IF Len(a) > 1 /\ a[2] % 2 = 1 THEN LimbBase \div 2 ELSE 0)>>
       \o BHalfR(Tail(a))

BHalf(a) == BNorm(BHalfR(a))

BOdd(a) == a # <<>> /\ a[1] % 2 = 1

RECURSIVE SmallBitLen(_)
SmallBitLen(n) == IF n = 0 THEN 0 ELSE 1 + SmallBitLen(n \div 2)

BBitLen(a) == IF a = <<>> THEN 0 ELSE 15 * (Len(a) - 1) + SmallBitLen(a[Len(a)])

RECURSIVE BShl(_, _)
BShl(a, k) == IF k = 0 \/ a = <<>> THEN a
              ELSE IF k >= 15 THEN <<0>> \o BShl(a, k - 15)
              ELSE BShl(BDouble(a), k - 1)

\* st = <<a, guard, sticky>>  |->  <<a div 2^k, guard bit, sticky bit>>
RECURSIVE BShrRound(_, _)
BShrRound(st, k) ==
  IF k = 0 \/ (st[1] = <<>> /\ ~st[2]) THEN st
  ELSE IF k >= 15 /\ st[1] # <<>>
       THEN BShrRound(<<Tail(st[1]), st[1][1] >= LimbBase \div 2,
                        st[3] \/ st[2] \/ st[1][1] % (LimbBase \div 2) # 0>>, k - 15)
       ELSE BShrRound(<<BHalf(st[1]), BOdd(st[1]), st[3] \/ st[2]>>, k - 1)

FZero == [m |-> <<>>, e |-> 0]

\* the double nearest to (m + f) * 2^e, where 0 <= f < 1 and f > 0 iff sticky
\* (a sticky result must come with more than MantissaBits + 1 bits)
FRound(m, e, sticky) ==
  LET len == BBitLen(m)
  IN IF m = <<>> THEN FZero
     ELSE IF len <= MantissaBits
          THEN [m |-> BShl(m, MantissaBits - len), e |-> e - (MantissaBits - len)]
     ELSE LET r  == BShrRound(<<m, FALSE, sticky>>, len - MantissaBits)
              up == r[2] /\ (r[3] \/ BOdd(r[1]))
              q  == IF up THEN BAdd(r[1], <<1>>) ELSE r[1]
          IN IF BBitLen(q) > MantissaBits
             THEN [m |-> BHalf(q), e |-> e + (len - MantissaBits) + 1]
             ELSE [m |-> q, e |-> e + (len - MantissaBits)]

\* float(n) for an int n >= 0
FFromInt(n) == FRound(BFromNat(n), 0, FALSE)

\* x * k for a double x and an int k >= 0 (k converts exactly)
FMulInt(x, k) == FRound(BMulSmall(x.m, k), x.e, FALSE)

FAdd(x, y) ==
  IF x.m = <<>> THEN y
  ELSE IF y.m = <<>> THEN x
  ELSE IF x.e >= y.e THEN FRound(BAdd(BShl(x.m, x.e - y.e), y.m), y.e, FALSE)
  ELSE FRound(BAdd(BShl(y.m, y.e - x.e), x.m), x.e, FALSE)

\* st = <<q, r>> with r < d  |->  <<q * 2^k + (r * 2^k) div d, (r * 2^k) mod d>>
RECURSIVE BDivBits(_, _, _)
BDivBits(st, d, k) ==
  IF k = 0 THEN st
  ELSE LET r2 == BDouble(st[2])
       IN IF BCmp(r2, d) >= 0
          THEN BDivBits(<<BAddC(BDouble(st[1]), <<1>>, 0), BSub(r2, d)>>, d, k - 1)
          ELSE BDivBits(<<BDouble(st[1]), r2>>, d, k - 1)

\* x / y for doubles x and y, y > 0
FDiv(x, y) ==
  IF x.m = <<>> THEN FZero
  ELSE LET ge == BCmp(x.m, y.m) >= 0
           r0 == IF ge THEN BSub(x.m, y.m) ELSE x.m
           qr == BDivBits(<<IF ge THEN <<1>> ELSE <<>>, r0>>, y.m, MantissaBits + 2)
       IN FRound(qr[1], x.e - y.e - (MantissaBits + 2), qr[2] # <<>>)

\* x < y
FLt(x, y) ==
  IF y.m = <<>> THEN FALSE
  ELSE IF x.m = <<>> THEN TRUE
  ELSE IF x.e # y.e THEN x.e < y.e
  ELSE BCmp(x.m, y.m) < 0

RECURSIVE BShr(_, _)
BShr(a, k) == IF k = 0 \/ a = <<>> THEN a
              ELSE IF k >= 15 THEN BShr(Tail(a), k - 15)
              ELSE BShr(BHalf(a), k - 1)

\* int(x): truncation toward zero, for x < 2^30
FInt(x) == IF x.m = <<>> THEN 0
           ELSE IF x.e >= 0 THEN BToNat(BShl(x.m, x.e))
           ELSE BToNat(BShr(x.m, -x.e))

\* st = <<quotient limbs so far, remainder>>: short division of a by a small n,
\* from the most significant limb down
RECURSIVE BDivSmallFrom(_, _, _, _)
BDivSmallFrom(a, n, i, st) ==
  IF i = 0 THEN st
  ELSE LET cur == st[2] * LimbBase + a[i]
       IN BDivSmallFrom(a, n, i - 1, <<(<<cur \div n>>) \o st[1], cur % n>>)

\* a / b for ints a >= 0 and 0 < b < 2^15: Python's true division, which is
\* correctly rounded
FDivInt(a, b) ==
  IF a = 0 THEN FZero
  ELSE LET sh == MantissaBits + 3 + SmallBitLen(b) - SmallBitLen(a)
           num == BShl(BFromNat(a), sh)
           qr == BDivSmallFrom(num, b, Len(num), <<(<<>>), 0>>)
       IN FRound(BNorm(qr[1]), -sh, qr[2] # 0)

\* the double a decimal literal n/10 or n/100 denotes
FDecimal(n, d) == FDivInt(n, d)

\* round(x, 2), given in hundredths: the exact binary value to two decimals,
\* ties to even
FRoundCenti(x) ==
  IF x.m = <<>> THEN 0
  ELSE LET r == BShrRound(<<BMulSmall(x.m, 100), FALSE, FALSE>>, -x.e)
       IN BToNat(r[1]) + (IF r[2] /\ (r[3] \/ BOdd(r[1])) THEN 1 ELSE 0)

(***************************************************************************)
(* Values.  A dict is a record; None is the empty function, and a dict is  *)
(* truthy when it has a key.  A raised exception is [exception |-> name].  *)
(* Times are in ticks of 1/4 second, so every start_time and every         *)
(* difference of two of them is an exact double; std_ioi is in thousandths *)
(* of a second; tempos are whole BPM; db values are whole decibels.        *)
(***************************************************************************)
None == <<>>
Truthy(d) == DOMAIN d # {}
Raise(name) == [exception |-> name]
Raised(v) == "exception" \in DOMAIN v
\* the result of a call that can raise and returns a list
Return(v) == [returned |-> v]
Abs(x) == IF x < 0 THEN -x ELSE x

MaxNotes == 3
\* the longest expected note list of the runs on long lists
MaxPhrase == 11
MaxTime == 2
Pitches == {"C4", "D4"}
Notes == [pitch : Pitches, start_time : 0..MaxTime]

\* sorted(notes, key=start_time): Python's sort is stable
RECURSIVE InsertByStartTime(_, _)
InsertByStartTime(s, n) ==
  IF s = <<>> THEN <<n>>
  ELSE IF n.start_time < Head(s).start_time THEN <<n>> \o s
  ELSE <<Head(s)>> \o InsertByStartTime(Tail(s), n)

RECURSIVE SortedByStartTime(_)
SortedByStartTime(notes) ==
  IF notes = <<>> THEN <<>>
  ELSE InsertByStartTime(SortedByStartTime(SubSeq(notes, 1, Len(notes) - 1)),
                         notes[Len(notes)])

(***************************************************************************)
(* RealFeedbackGenerator._analyze_pitch_accuracy                           *)
(***************************************************************************)
\* 0.5 seconds, in ticks
WindowTicks == 2

\* the inner loop with the note farthest from expected_time inside the window
\* kept instead of the closest one
RECURSIVE FindFarthest(_, _, _, _)
FindFarthest(played_aligned, expected_time, j, st) ==
  IF j > Len(played_aligned) THEN st[1]
  ELSE LET time_diff == Abs(played_aligned[j].start_time - expected_time)
       IN IF time_diff < WindowTicks /\ (st[1] = 0 \/ time_diff > st[2])
          THEN FindFarthest(played_aligned, expected_time, j + 1, <<j, time_diff>>)
          ELSE FindFarthest(played_aligned, expected_time, j + 1, st)

\* the inner loop over played_aligned[j..]: st = <<index of closest_played
\* (0 for None), min_time_diff>>; min_time_diff is inf while closest is None
RECURSIVE FindClosest(_, _, _, _)
FindClosest(played_aligned, expected_time, j, st) ==
  IF j > Len(played_aligned) THEN st[1]
  ELSE LET time_diff == Abs(played_aligned[j].start_time - expected_time)
       IN IF time_diff < WindowTicks /\ (st[1] = 0 \/ time_diff < st[2])
          THEN FindClosest(played_aligned, expected_time, j + 1, <<j, time_diff>>)
          ELSE FindClosest(played_aligned, expected_time, j + 1, st)

closest_played(played_aligned, expected_time) ==
  FindClosest(played_aligned, expected_time, 1, <<0, 0>>)

\* the outer loop from expected_aligned[i]: st carries correct_count, errors and
\* matched, where matched[i] is the index of the played note expected note i was
\* compared with (0 when it is MISSING)
RECURSIVE MatchNotes(_, _, _, _)
MatchNotes(expected_aligned, played_aligned, i, st) ==
  IF i > Len(expected_aligned) THEN st
  ELSE LET expected_note == expected_aligned[i]
           c == closest_played(played_aligned, expected_note.start_time)
           err == [position |-> i - 1, expected |-> expected_note.pitch,
                   played |-> IF c = 0 THEN "MISSING" ELSE played_aligned[c].pitch,
                   time |-> expected_note.start_time]
           hit == c # 0 /\ played_aligned[c].pitch = expected_note.pitch
       IN MatchNotes(expected_aligned, played_aligned, i + 1,
            [correct_count |-> st.correct_count + (IF hit THEN 1 ELSE 0),
             errors |-> IF hit THEN st.errors ELSE Append(st.errors, err),
             matched |-> Append(st.matched, c)])

TimeWindowAlignment(expected_notes, played_notes) ==
  MatchNotes(SortedByStartTime(expected_notes), SortedByStartTime(played_notes), 1,
             [correct_count |-> 0, errors |-> <<>>, matched |-> <<>>])

\* errors[:n]
Prefix(s, n) == SubSeq(s, 1, IF Len(s) < n THEN Len(s) ELSE n)

\* accuracy = (correct_count / total) * 100 if total else 0
Accuracy(correct_count, total) ==
  IF total = 0 THEN FZero ELSE FMulInt(FDivInt(correct_count, total), 100)

MaxErrors == 10

\* int(accuracy) and round(accuracy, 2) for every count the note lists allow
PitchScores ==
  [total \in 0..(IF MaxNotes > MaxPhrase THEN MaxNotes ELSE MaxPhrase) |->
     [correct_count \in 0..total |->
        LET accuracy == Accuracy(correct_count, total)
        IN [score |-> FInt(accuracy), accuracy |-> FRoundCenti(accuracy)]]]

analyze_pitch_accuracy(expected_notes, played_notes) ==
  IF expected_notes = <<>> \/ played_notes = <<>>
  THEN [score |-> 0, correct_notes |-> 0, total_notes |-> Len(expected_notes),
        accuracy |-> 0, errors |-> <<>>]
  ELSE LET st == TimeWindowAlignment(expected_notes, played_notes)
           errors == IF Len(played_notes) > Len(expected_notes)
                     THEN Append(st.errors,
                                 [type |-> "extra_notes",
                                  count |-> Len(played_notes) - Len(expected_notes)])
                     ELSE st.errors
           scores == PitchScores[Len(expected_notes)][st.correct_count]
       IN [score |-> scores.score, correct_notes |-> st.correct_count,
           total_notes |-> Len(expected_notes), accuracy |-> scores.accuracy,
           errors |-> Prefix(errors, MaxErrors)]

\* the matches the loop made (a local of the method, kept for the alignment properties)
pitch_alignment(expected_notes, played_notes) ==
  IF expected_notes = <<>> \/ played_notes = <<>> THEN <<>>
  ELSE TimeWindowAlignment(expected_notes, played_notes).matched

(***************************************************************************)
(* FeedbackGenerator._analyze_pitch_accuracy: positional pairing           *)
(***************************************************************************)
RECURSIVE PairNotes(_, _, _, _)
PairNotes(expected_notes, played_notes, i, st) ==
  IF i > Len(expected_notes) \/ i > Len(played_notes) THEN st
  ELSE LET hit == expected_notes[i].pitch = played_notes[i].pitch
           err == [position |-> i - 1, expected |-> expected_notes[i].pitch,
                   played |-> played_notes[i].pitch,
                   time |-> played_notes[i].start_time]
       IN PairNotes(expected_notes, played_notes, i + 1,
            [correct_count |-> st.correct_count + (IF hit THEN 1 ELSE 0),
             errors |-> IF hit THEN st.errors ELSE Append(st.errors, err),
             matched |-> Append(st.matched, i)])

PositionalAlignment(expected_notes, played_notes) ==
  PairNotes(expected_notes, played_notes, 1,
            [correct_count |-> 0, errors |-> <<>>, matched |-> <<>>])

FG_analyze_pitch_accuracy(expected_notes, played_notes) ==
  IF expected_notes = <<>> \/ played_notes = <<>>
  THEN [score |-> 0, correct_notes |-> 0, total_notes |-> Len(expected_notes),
        accuracy |-> 0, errors |-> <<>>]
  ELSE LET st == PositionalAlignment(expected_notes, played_notes)
           errors ==
             IF Len(played_notes) < Len(expected_notes)
             THEN Append(st.errors, [type |-> "missing_notes",
                                     count |-> Len(expected_notes) - Len(played_notes)])
             ELSE IF Len(played_notes) > Len(expected_notes)
             THEN Append(st.errors, [type |-> "extra_notes",
                                     count |-> Len(played_notes) - Len(expected_notes)])
             ELSE st.errors
           scores == PitchScores[Len(expected_notes)][st.correct_count]
       IN [score |-> scores.score, correct_notes |-> st.correct_count,
           total_notes |-> Len(expected_notes), accuracy |-> scores.accuracy,
           errors |-> errors]

FG_pitch_alignment(expected_notes, played_notes) ==
  IF expected_notes = <<>> \/ played_notes = <<>> THEN <<>>
  ELSE LET m == PositionalAlignment(expected_notes, played_notes).matched
       IN [i \in 1..Len(expected_notes) |-> IF i <= Len(m) THEN m[i] ELSE 0]

(***************************************************************************)
(* _analyze_rhythm_accuracy.  expected_rhythms is never read.  The two     *)
(* classes differ in the std_ioi above which 15 points are lost.           *)
(***************************************************************************)
\* 0.15 s and 0.1 s in thousandths
UnevenThreshold == 150
FG_UnevenThreshold == 100
ConsistencyThreshold == 100

\* RhythmAccuracy calling the rhythm good up to twice the limit
RhythmAccuracy_lenient_label(uneven_above, played_rhythm, expected_tempo, played_tempo) ==
  LET tempo_diff == Abs(expected_tempo - played_tempo)
      std_ioi == played_rhythm.std_ioi
      score1 == IF tempo_diff > 10 THEN 100 - 20
                ELSE IF tempo_diff > 5 THEN 100 - 10
                ELSE 100
      issues1 == IF tempo_diff > 10
                 THEN <<[type |-> "tempo_inconsistent", expected |-> expected_tempo,
                         actual |-> played_tempo, difference |-> tempo_diff]>>
                 ELSE <<>>
      uneven == std_ioi > uneven_above
      score == IF uneven THEN score1 - 15 ELSE score1
      issues == IF uneven
                THEN Append(issues1, [type |-> "uneven_rhythm", variability |-> std_ioi])
                ELSE issues1
  IN [score |-> IF score < 0 THEN 0 ELSE score,
      issues |-> issues,
      tempo_difference |-> tempo_diff,
      rhythm_consistency |-> IF std_ioi < 2 * ConsistencyThreshold + 1 THEN "good"
                             ELSE "needs_work"]

RhythmAccuracy(uneven_above, played_rhythm, expected_tempo, played_tempo) ==
  LET tempo_diff == Abs(expected_tempo - played_tempo)
      std_ioi == played_rhythm.std_ioi
      score1 == IF tempo_diff > 10 THEN 100 - 20
                ELSE IF tempo_diff > 5 THEN 100 - 10
                ELSE 100
      issues1 == IF tempo_diff > 10
                 THEN <<[type |-> "tempo_inconsistent", expected |-> expected_tempo,
                         actual |-> played_tempo, difference |-> tempo_diff]>>
                 ELSE <<>>
      uneven == std_ioi > uneven_above
      score == IF uneven THEN score1 - 15 ELSE score1
      issues == IF uneven
                THEN Append(issues1, [type |-> "uneven_rhythm", variability |-> std_ioi])
                ELSE issues1
  IN [score |-> IF score < 0 THEN 0 ELSE score,
      issues |-> issues,
      tempo_difference |-> tempo_diff,
      rhythm_consistency |-> IF std_ioi < ConsistencyThreshold THEN "good"
                             ELSE "needs_work"]

analyze_rhythm_accuracy(played_rhythm, expected_tempo, played_tempo) ==
  RhythmAccuracy(UnevenThreshold, played_rhythm, expected_tempo, played_tempo)

FG_analyze_rhythm_accuracy(played_rhythm, expected_tempo, played_tempo) ==
  RhythmAccuracy(FG_UnevenThreshold, played_rhythm, expected_tempo, played_tempo)

(***************************************************************************)
(* _analyze_tempo (the same code in both classes)                          *)
(***************************************************************************)
\* the bands with <= where the code has <
analyze_tempo_inclusive(expected_tempo, played_tempo) ==
  LET difference == Abs(expected_tempo - played_tempo)
  IN IF expected_tempo = 0 THEN Raise("ZeroDivisionError")
     ELSE LET percentage_diff == FMulInt(FDivInt(difference, expected_tempo), 100)
              band == IF ~FLt(FFromInt(5), percentage_diff) THEN <<"excellent", 100>>
                      ELSE IF ~FLt(FFromInt(10), percentage_diff) THEN <<"good", 85>>
                      ELSE IF ~FLt(FFromInt(15), percentage_diff) THEN <<"fair", 70>>
                      ELSE <<"needs_improvement", 50>>
          IN [score |-> band[2],
              expected_bpm |-> expected_tempo,
              actual_bpm |-> played_tempo,
              difference_bpm |-> difference,
              percentage_difference |-> FRoundCenti(percentage_diff),
              rating |-> band[1]]

analyze_tempo(expected_tempo, played_tempo) ==
  LET difference == Abs(expected_tempo - played_tempo)
  IN IF expected_tempo = 0 THEN Raise("ZeroDivisionError")
     ELSE LET percentage_diff == FMulInt(FDivInt(difference, expected_tempo), 100)
              band == IF FLt(percentage_diff, FFromInt(5)) THEN <<"excellent", 100>>
                      ELSE IF FLt(percentage_diff, FFromInt(10)) THEN <<"good", 85>>
                      ELSE IF FLt(percentage_diff, FFromInt(15)) THEN <<"fair", 70>>
                      ELSE <<"needs_improvement", 50>>
          IN [score |-> band[2],
              expected_bpm |-> expected_tempo,
              actual_bpm |-> played_tempo,
              difference_bpm |-> difference,
              percentage_difference |-> FRoundCenti(percentage_diff),
              rating |-> band[1]]

(***************************************************************************)
(* _analyze_dynamics (the same code in both classes)                       *)
(***************************************************************************)
Max(S) == CHOOSE x \in S : \A y \in S : y <= x
Min(S) == CHOOSE x \in S : \A y \in S : x <= y
Range(f) == {f[i] : i \in DOMAIN f}

\* the levels bonus given from 3 distinct levels on
analyze_dynamics_three_levels(dynamics) ==
  IF dynamics = <<>>
  THEN [score |-> 50, range |-> "limited", control |-> "unknown"]
  ELSE LET db_values == {d.db : d \in Range(dynamics)}
           dynamic_range == Max(db_values) - Min(db_values)
           levels == {d.level : d \in Range(dynamics)}
           score == 70 + (IF dynamic_range > 30 THEN 15 ELSE 0)
                       + (IF Cardinality(levels) >= 3 THEN 15 ELSE 0)
       IN [score |-> IF score > 100 THEN 100 ELSE score,
           range_db |-> dynamic_range,
           levels_used |-> levels,
           variety |-> IF Cardinality(levels) >= 3 THEN "good" ELSE "limited"]

\* the range bonus given from a range of 30 dB on
analyze_dynamics_range_inclusive(dynamics) ==
  IF dynamics = <<>>
  THEN [score |-> 50, range |-> "limited", control |-> "unknown"]
  ELSE LET db_values == {d.db : d \in Range(dynamics)}
           dynamic_range == Max(db_values) - Min(db_values)
           levels == {d.level : d \in Range(dynamics)}
           score == 70 + (IF dynamic_range >= 30 THEN 15 ELSE 0)
                       + (IF Cardinality(levels) >= 4 THEN 15 ELSE 0)
       IN [score |-> IF score > 100 THEN 100 ELSE score,
           range_db |-> dynamic_range,
           levels_used |-> levels,
           variety |-> IF Cardinality(levels) >= 3 THEN "good" ELSE "limited"]

\* analyze_dynamics with the fallback for an empty series labelled like the
\* other results
analyze_dynamics_labelled_fallback(dynamics) ==
  IF dynamics = <<>>
  THEN [score |-> 50, range |-> "limited", control |-> "unknown", variety |-> "limited"]
  ELSE LET db_values == {d.db : d \in Range(dynamics)}
           dynamic_range == Max(db_values) - Min(db_values)
           levels == {d.level : d \in Range(dynamics)}
           score == 70 + (IF dynamic_range > 30 THEN 15 ELSE 0)
                       + (IF Cardinality(levels) >= 4 THEN 15 ELSE 0)
       IN [score |-> IF score > 100 THEN 100 ELSE score,
           range_db |-> dynamic_range,
           levels_used |-> levels,
           variety |-> IF Cardinality(levels) >= 3 THEN "good" ELSE "limited"]

analyze_dynamics(dynamics) ==
  IF dynamics = <<>>
  THEN [score |-> 50, range |-> "limited", control |-> "unknown"]
  ELSE LET db_values == {d.db : d \in Range(dynamics)}
           dynamic_range == Max(db_values) - Min(db_values)
           levels == {d.level : d \in Range(dynamics)}
           score == 70 + (IF dynamic_range > 30 THEN 15 ELSE 0)
                       + (IF Cardinality(levels) >= 4 THEN 15 ELSE 0)
       IN [score |-> IF score > 100 THEN 100 ELSE score,
           range_db |-> dynamic_range,
           levels_used |-> levels,
           variety |-> IF Cardinality(levels) >= 3 THEN "good" ELSE "limited"]

(***************************************************************************)
(* _calculate_overall_score (the same code in both classes)                *)
(***************************************************************************)
PitchWeight == FDecimal(4, 10)
RhythmWeight == FDecimal(3, 10)
TempoWeight == FDecimal(2, 10)
DynamicsWeight == FDecimal(1, 10)
Renormalizer == FDecimal(9, 10)

\* the overall score divided by 0.9 whether or not dynamics took part
calculate_overall_score_renormalised(pitch_fb, rhythm_fb, tempo_fb, dynamics_fb) ==
  LET score == FAdd(FAdd(FMulInt(PitchWeight, pitch_fb.score),
                         FMulInt(RhythmWeight, rhythm_fb.score)),
                    FMulInt(TempoWeight, tempo_fb.score))
  IN IF Truthy(dynamics_fb)
     THEN FInt(FDiv(FAdd(score, FMulInt(DynamicsWeight, dynamics_fb.score)), Renormalizer))
     ELSE FInt(FDiv(score, Renormalizer))

calculate_overall_score(pitch_fb, rhythm_fb, tempo_fb, dynamics_fb) ==
  LET score == FAdd(FAdd(FMulInt(PitchWeight, pitch_fb.score),
                         FMulInt(RhythmWeight, rhythm_fb.score)),
                    FMulInt(TempoWeight, tempo_fb.score))
  IN IF Truthy(dynamics_fb)
     THEN FInt(FAdd(score, FMulInt(DynamicsWeight, dynamics_fb.score)))
     ELSE FInt(FDiv(score, Renormalizer))

(***************************************************************************)
(* Recommendations.  A recommendation text is kept as the rule that wrote  *)
(* it; a line taken from the generative backend is [rule |-> "llm"] with   *)
(* its position in the generated text.                                     *)
(***************************************************************************)
\* a generated line is used when it is longer than this many characters
MinLineLength == 10
\* at most this many generated lines are taken
MaxLLMLines == 3
\* recommendations[:5]
MaxRecommendations == 5

\* the template rules appended in the opposite order
generate_recommendations_template_reversed(pitch_fb, rhythm_fb, tempo_fb, dynamics_fb) ==
  LET pitch == IF pitch_fb.score < 70 THEN <<[rule |-> "pitch"]>> ELSE <<>>
      rhythm == IF rhythm_fb.score < 70 /\ rhythm_fb.rhythm_consistency = "needs_work"
                THEN <<[rule |-> "rhythm"]>> ELSE <<>>
      tempo == IF tempo_fb.score < 70
               THEN IF tempo_fb.actual_bpm - tempo_fb.expected_bpm < 0
                    THEN <<[rule |-> "tempo", direction |-> "too slowly"]>>
                    ELSE <<[rule |-> "tempo", direction |-> "too fast"]>>
               ELSE <<>>
      dynamics == IF Truthy(dynamics_fb) /\ dynamics_fb.score < 70
                     /\ "variety" \in DOMAIN dynamics_fb
                     /\ dynamics_fb.variety = "limited"
                  THEN <<[rule |-> "dynamics"]>> ELSE <<>>
      recommendations == dynamics \o tempo \o rhythm \o pitch
  IN IF recommendations = <<>> THEN <<[rule |-> "positive"]>> ELSE recommendations

\* the positive message appended whatever the rules gave
generate_recommendations_template_praising(pitch_fb, rhythm_fb, tempo_fb, dynamics_fb) ==
  LET pitch == IF pitch_fb.score < 70 THEN <<[rule |-> "pitch"]>> ELSE <<>>
      rhythm == IF rhythm_fb.score < 70 /\ rhythm_fb.rhythm_consistency = "needs_work"
                THEN <<[rule |-> "rhythm"]>> ELSE <<>>
      tempo == IF tempo_fb.score < 70
               THEN IF tempo_fb.actual_bpm - tempo_fb.expected_bpm < 0
                    THEN <<[rule |-> "tempo", direction |-> "too slowly"]>>
                    ELSE <<[rule |-> "tempo", direction |-> "too fast"]>>
               ELSE <<>>
      dynamics == IF Truthy(dynamics_fb) /\ dynamics_fb.score < 70
                     /\ "variety" \in DOMAIN dynamics_fb
                     /\ dynamics_fb.variety = "limited"
                  THEN <<[rule |-> "dynamics"]>> ELSE <<>>
      recommendations == pitch \o rhythm \o tempo \o dynamics
  IN Append(recommendations, [rule |-> "positive"])

generate_recommendations_template(pitch_fb, rhythm_fb, tempo_fb, dynamics_fb) ==
  LET pitch == IF pitch_fb.score < 70 THEN <<[rule |-> "pitch"]>> ELSE <<>>
      rhythm == IF rhythm_fb.score < 70 /\ rhythm_fb.rhythm_consistency = "needs_work"
                THEN <<[rule |-> "rhythm"]>> ELSE <<>>
      tempo == IF tempo_fb.score < 70
               THEN IF tempo_fb.actual_bpm - tempo_fb.expected_bpm < 0
                    THEN <<[rule |-> "tempo", direction |-> "too slowly"]>>
                    ELSE <<[rule |-> "tempo", direction |-> "too fast"]>>
               ELSE <<>>
      dynamics == IF Truthy(dynamics_fb) /\ dynamics_fb.score < 70
                     /\ "variety" \in DOMAIN dynamics_fb
                     /\ dynamics_fb.variety = "limited"
                  THEN <<[rule |-> "dynamics"]>> ELSE <<>>
      recommendations == pitch \o rhythm \o tempo \o dynamics
  IN IF recommendations = <<>> THEN <<[rule |-> "positive"]>> ELSE recommendations

\* the context string is not kept; building it reads dynamics_feedback['variety']
build_feedback_context(pitch_fb, rhythm_fb, tempo_fb, dynamics_fb, overall) ==
  IF Truthy(dynamics_fb) /\ "variety" \notin DOMAIN dynamics_fb
  THEN Raise("KeyError")
  ELSE [context |-> "built"]

\* the loop over the lines of the generated text, each given by its stripped
\* length, from line i on
RECURSIVE TakeLines(_, _, _)
TakeLines(lines, i, recommendations) ==
  IF i > Len(lines) \/ Len(recommendations) >= MaxLLMLines THEN recommendations
  ELSE TakeLines(lines, i + 1,
                 IF lines[i] # 0 /\ lines[i] > MinLineLength
                 THEN Append(recommendations, [rule |-> "llm", line |-> i])
                 ELSE recommendations)

\* the templates used only when the backend gave no usable line at all
generate_recommendations_llm_one_line(llm, generated, pitch_fb, rhythm_fb, tempo_fb, dynamics_fb, overall) ==
  LET context == build_feedback_context(pitch_fb, rhythm_fb, tempo_fb, dynamics_fb,
                                        overall)
      recommendations == IF Truthy(llm) /\ ~Raised(generated)
                         THEN TakeLines(generated.lines, 1, <<>>)
                         ELSE <<>>
  IN IF Raised(context) THEN context
     ELSE IF Len(recommendations) < 1
          THEN Return(Prefix(generate_recommendations_template(pitch_fb, rhythm_fb,
                                                               tempo_fb, dynamics_fb),
                             MaxRecommendations))
          ELSE Return(Prefix(recommendations, MaxRecommendations))

\* llm: None when no model was loaded; generated: what the backend does when
\* called, a raised exception or [lines |-> the lines after the prompt]
generate_recommendations_llm(llm, generated, pitch_fb, rhythm_fb, tempo_fb, dynamics_fb, overall) ==
  LET context == build_feedback_context(pitch_fb, rhythm_fb, tempo_fb, dynamics_fb,
                                        overall)
      recommendations == IF Truthy(llm) /\ ~Raised(generated)
                         THEN TakeLines(generated.lines, 1, <<>>)
                         ELSE <<>>
  IN IF Raised(context) THEN context
     ELSE IF Len(recommendations) < 2
          THEN Return(Prefix(generate_recommendations_template(pitch_fb, rhythm_fb,
                                                               tempo_fb, dynamics_fb),
                             MaxRecommendations))
          ELSE Return(Prefix(recommendations, MaxRecommendations))

\* FeedbackGenerator._generate_recommendations
FG_generate_recommendations(pitch_fb, rhythm_fb, tempo_fb, dynamics_fb) ==
  LET error_notes == {i \in DOMAIN pitch_fb.errors :
                        "expected" \in DOMAIN pitch_fb.errors[i]}
      pitch == IF pitch_fb.score < 70
               THEN IF error_notes # {}
                    THEN <<[rule |-> "pitch"], [rule |-> "pitch_notes"]>>
                    ELSE <<[rule |-> "pitch"]>>
               ELSE <<>>
      rhythm == IF rhythm_fb.score < 70 /\ rhythm_fb.rhythm_consistency = "needs_work"
                THEN <<[rule |-> "rhythm"]>> ELSE <<>>
      tempo == IF tempo_fb.score < 70
               THEN IF tempo_fb.actual_bpm < tempo_fb.expected_bpm
                    THEN <<[rule |-> "tempo", direction |-> "too slowly"]>>
                    ELSE <<[rule |-> "tempo", direction |-> "too fast"]>>
               ELSE <<>>
      dynamics == IF Truthy(dynamics_fb) /\ dynamics_fb.score < 70
                     /\ "variety" \in DOMAIN dynamics_fb
                     /\ dynamics_fb.variety = "limited"
                  THEN <<[rule |-> "dynamics"]>> ELSE <<>>
      recommendations == pitch \o rhythm \o tempo \o dynamics
  IN IF recommendations = <<>> THEN <<[rule |-> "positive"]>> ELSE recommendations

\* _generate_summary (the same code in both classes)
generate_summary(overall, pitch_fb, rhythm_fb, tempo_fb) ==
  [performance |-> IF overall >= 90 THEN "outstanding"
                   ELSE IF overall >= 80 THEN "very good"
                   ELSE IF overall >= 70 THEN "good"
                   ELSE IF overall >= 60 THEN "fair"
                   ELSE "needs improvement",
   overall_score |-> overall,
   strengths |-> (IF pitch_fb.score >= 80 THEN <<"pitch accuracy">> ELSE <<>>)
                 \o (IF rhythm_fb.score >= 80 THEN <<"rhythmic consistency">> ELSE <<>>)
                 \o (IF tempo_fb.score >= 80 THEN <<"tempo control">> ELSE <<>>)]

(***************************************************************************)
(* generate_feedback as a state machine: one action per call it makes.     *)
(***************************************************************************)
VARIABLES
  generator,             \* the class of the object: "RealFeedbackGenerator" or "FeedbackGenerator"
  llm_pipeline,          \* self.llm_pipeline: None, or the loaded model
  sheet_music_analysis,  \* argument: [notes, tempo]
  audio_analysis,        \* argument: [notes, tempo, rhythm, dynamics]
  disable_dynamics,      \* argument
  pc,                    \* the next call of generate_feedback, "done" or "raised"
  alignment,             \* the matches made by _analyze_pitch_accuracy
  pitch_feedback, rhythm_feedback, tempo_feedback, dynamics_feedback,
  overall_score, generated, recommendations, summary,
  feedback,              \* what generate_feedback returned or raised
  practice_sessions,     \* the rows of table practice_sessions, in commit order
  utcnow,                \* the last value datetime.utcnow() gave
  request                \* the analyze_performance requests in progress

vars == <<generator, llm_pipeline, sheet_music_analysis, audio_analysis,
          disable_dynamics, pc, alignment, pitch_feedback, rhythm_feedback,
          tempo_feedback, dynamics_feedback, overall_score, generated,
          recommendations, summary, feedback, practice_sessions, utcnow, request>>

web == <<practice_sessions, utcnow, request>>

\* no request is being served and nothing is stored
NoRequests == practice_sessions = <<>> /\ utcnow = 0 /\ request = <<>>

inputs == <<generator, llm_pipeline, sheet_music_analysis, audio_analysis,
            disable_dynamics>>

Real == "RealFeedbackGenerator"
Legacy == "FeedbackGenerator"
Generators == {Real, Legacy}

PitchStep(gen, sheet, audio) ==
  IF gen = Real THEN analyze_pitch_accuracy(sheet.notes, audio.notes)
  ELSE FG_analyze_pitch_accuracy(sheet.notes, audio.notes)

AlignmentStep(gen, sheet, audio) ==
  IF gen = Real THEN pitch_alignment(sheet.notes, audio.notes)
  ELSE FG_pitch_alignment(sheet.notes, audio.notes)

RhythmStep(gen, sheet, audio) ==
  IF gen = Real THEN analyze_rhythm_accuracy(audio.rhythm, sheet.tempo, audio.tempo)
  ELSE FG_analyze_rhythm_accuracy(audio.rhythm, sheet.tempo, audio.tempo)

TempoStep(sheet, audio) == analyze_tempo(sheet.tempo, audio.tempo)

DynamicsStep(audio, disable) ==
  IF disable THEN None ELSE analyze_dynamics(audio.dynamics)

AnalyzePitch ==
  /\ pc = "pitch"
  /\ pitch_feedback' = PitchStep(generator, sheet_music_analysis, audio_analysis)
  /\ alignment' = AlignmentStep(generator, sheet_music_analysis, audio_analysis)
  /\ pc' = "rhythm"
  /\ UNCHANGED <<web, inputs, rhythm_feedback, tempo_feedback, dynamics_feedback,
                 overall_score, generated, recommendations, summary, feedback>>

AnalyzeRhythm ==
  /\ pc = "rhythm"
  /\ rhythm_feedback' = RhythmStep(generator, sheet_music_analysis, audio_analysis)
  /\ pc' = "tempo"
  /\ UNCHANGED <<web, inputs, alignment, pitch_feedback, tempo_feedback, dynamics_feedback,
                 overall_score, generated, recommendations, summary, feedback>>

\* AnalyzeTempo with the error swallowed: what the earlier stages produced is returned
AnalyzeTempo_partial ==
  /\ pc = "tempo"
  /\ LET r == TempoStep(sheet_music_analysis, audio_analysis)
     IN IF Raised(r)
        THEN /\ pc' = "done"
             /\ feedback' = [pitch |-> pitch_feedback, rhythm |-> rhythm_feedback]
             /\ UNCHANGED tempo_feedback
        ELSE /\ pc' = "dynamics"
             /\ tempo_feedback' = r
             /\ UNCHANGED feedback
  /\ UNCHANGED <<web, inputs, alignment, pitch_feedback, rhythm_feedback, dynamics_feedback,
                 overall_score, generated, recommendations, summary>>

\* a ZeroDivisionError leaves generate_feedback through its except clause
AnalyzeTempo ==
  /\ pc = "tempo"
  /\ LET r == TempoStep(sheet_music_analysis, audio_analysis)
     IN IF Raised(r)
        THEN /\ pc' = "raised"
             /\ feedback' = r
             /\ UNCHANGED tempo_feedback
        ELSE /\ pc' = "dynamics"
             /\ tempo_feedback' = r
             /\ UNCHANGED feedback
  /\ UNCHANGED <<web, inputs, alignment, pitch_feedback, rhythm_feedback, dynamics_feedback,
                 overall_score, generated, recommendations, summary>>

\* AnalyzeDynamics going on to the recommendations with no overall score yet
AnalyzeDynamics_before_overall ==
  /\ pc = "dynamics"
  /\ dynamics_feedback' = DynamicsStep(audio_analysis, disable_dynamics)
  /\ pc' = "recommend"
  /\ UNCHANGED <<web, inputs, alignment, pitch_feedback, rhythm_feedback, tempo_feedback,
                 overall_score, generated, recommendations, summary, feedback>>

AnalyzeDynamics ==
  /\ pc = "dynamics"
  /\ dynamics_feedback' = DynamicsStep(audio_analysis, disable_dynamics)
  /\ pc' = "overall"
  /\ UNCHANGED <<web, inputs, alignment, pitch_feedback, rhythm_feedback, tempo_feedback,
                 overall_score, generated, recommendations, summary, feedback>>

CalculateOverallScore ==
  /\ pc = "overall"
  /\ overall_score' = calculate_overall_score(pitch_feedback, rhythm_feedback,
                                              tempo_feedback, dynamics_feedback)
  /\ pc' = "recommend"
  /\ UNCHANGED <<web, inputs, alignment, pitch_feedback, rhythm_feedback, tempo_feedback,
                 dynamics_feedback, generated, recommendations, summary, feedback>>

\* what the backend can do when it is called: raise, or continue the prompt with
\* up to MaxLines lines, each exactly MinLineLength long or one longer
MaxLines == 4
LineLengths == {MinLineLength, MinLineLength + 1}
LLMOutputs == {Raise("RuntimeError")}
              \cup {[lines |-> ls] : ls \in UNION {[1..n -> LineLengths] : n \in 0..MaxLines}}

\* RealFeedbackGenerator consults the backend when one is loaded (its sampled
\* output is any of LLMOutputs); FeedbackGenerator has no backend
GenerateRecommendations ==
  /\ pc = "recommend"
  /\ \E out \in IF generator = Real /\ Truthy(llm_pipeline) THEN LLMOutputs ELSE {None} :
       LET r == IF generator = Real
                THEN generate_recommendations_llm(llm_pipeline, out, pitch_feedback,
                       rhythm_feedback, tempo_feedback, dynamics_feedback, overall_score)
                ELSE Return(FG_generate_recommendations(pitch_feedback,
                       rhythm_feedback, tempo_feedback, dynamics_feedback))
       IN IF Raised(r)
          THEN /\ pc' = "raised"
               /\ feedback' = r
               /\ UNCHANGED <<generated, recommendations>>
          ELSE /\ pc' = "summary"
               /\ generated' = out
               /\ recommendations' = r.returned
               /\ UNCHANGED feedback
  /\ UNCHANGED <<web, inputs, alignment, pitch_feedback, rhythm_feedback, tempo_feedback,
                 dynamics_feedback, overall_score, summary>>

\* _generate_summary, then the feedback dict is built and returned
GenerateSummary ==
  /\ pc = "summary"
  /\ summary' = generate_summary(overall_score, pitch_feedback, rhythm_feedback,
                                 tempo_feedback)
  /\ feedback' = [overall_score |-> overall_score, pitch |-> pitch_feedback,
                  rhythm |-> rhythm_feedback, tempo |-> tempo_feedback,
                  dynamics |-> dynamics_feedback, recommendations |-> recommendations,
                  summary |-> summary']
  /\ pc' = "done"
  /\ UNCHANGED <<web, inputs, alignment, pitch_feedback, rhythm_feedback, tempo_feedback,
                 dynamics_feedback, overall_score, generated, recommendations>>

Next ==
  \/ AnalyzePitch
  \/ AnalyzeRhythm
  \/ AnalyzeTempo
  \/ AnalyzeDynamics
  \/ CalculateOverallScore
  \/ GenerateRecommendations
  \/ GenerateSummary

(***************************************************************************)
(* Inputs and specifications.                                              *)
(***************************************************************************)
DefaultNotes == <<[pitch |-> "C4", start_time |-> 0]>>
DefaultSheet == [notes |-> DefaultNotes, tempo |-> 120]
DefaultAudio == [notes |-> DefaultNotes, tempo |-> 120, rhythm |-> [std_ioi |-> 0],
                 dynamics |-> <<>>]

\* the state in which generate_feedback is entered
Called(gen, llm, sheet, audio, disable) ==
  /\ generator = gen
  /\ llm_pipeline = llm
  /\ sheet_music_analysis = sheet
  /\ audio_analysis = audio
  /\ disable_dynamics = disable
  /\ pc = "pitch"
  /\ alignment = None
  /\ pitch_feedback = None
  /\ rhythm_feedback = None
  /\ tempo_feedback = None
  /\ dynamics_feedback = None
  /\ overall_score = None
  /\ generated = None
  /\ recommendations = None
  /\ summary = None
  /\ feedback = None
  /\ NoRequests

\* note lists of up to MaxNotes notes, given in start-time order or in the
\* reverse of it
Reverse(s) == [i \in 1..Len(s) |-> s[Len(s) + 1 - i]]
Ascending(s) == \A i \in 1..(Len(s) - 1) : s[i].start_time <= s[i + 1].start_time
AscendingNoteLists == {s \in UNION {[1..n -> Notes] : n \in 0..MaxNotes} : Ascending(s)}
\* the expected lists are those written in one pitch: a match is right or wrong
\* by the played note's pitch
ExpectedNoteLists == {s \in AscendingNoteLists : \A i \in DOMAIN s : s[i].pitch = "C4"}

\* SpecPitch: _analyze_pitch_accuracy of either class on all pairs of note lists
InitPitch ==
  \E gen \in Generators, e \in ExpectedNoteLists, p \in AscendingNoteLists,
     rev \in BOOLEAN :
    Called(gen, None,
           [DefaultSheet EXCEPT !.notes = IF rev THEN Reverse(e) ELSE e],
           [DefaultAudio EXCEPT !.notes = IF rev THEN Reverse(p) ELSE p], FALSE)

SpecPitch == InitPitch /\ [][AnalyzePitch]_vars

\* SpecPhrase: _analyze_pitch_accuracy on long lists, enough for more than
\* MaxErrors errors: n expected notes and m played notes, all at time 0, the
\* played ones in the expected pitch or all in another
Phrase(pitch, n) == [i \in 1..n |-> [pitch |-> pitch, start_time |-> 0]]

InitPhrase ==
  \E gen \in Generators, n \in 1..MaxPhrase, m \in 1..(MaxPhrase + 1),
     pitch \in Pitches :
    Called(gen, None,
           [DefaultSheet EXCEPT !.notes = Phrase("C4", n)],
           [DefaultAudio EXCEPT !.notes = Phrase(pitch, m)], FALSE)

SpecPhrase == InitPhrase /\ [][AnalyzePitch]_vars

\* SpecTiming: _analyze_rhythm_accuracy and _analyze_tempo, entered after the pitch
\* analysis of the default notes, on tempos around each expected tempo
TempoSpread == 20
ExpectedTempos == {0, 60, 100, 120}
StdIois == {0, 99, 100, 101, 150, 151, 200}

InitTiming ==
  \E gen \in Generators, et \in ExpectedTempos, d \in (-TempoSpread)..TempoSpread,
     std \in StdIois :
    LET sheet == [DefaultSheet EXCEPT !.tempo = et]
        audio == [DefaultAudio EXCEPT !.tempo = et + d, !.rhythm = [std_ioi |-> std]]
    IN /\ et + d >= 0
       /\ generator = gen
       /\ llm_pipeline = None
       /\ sheet_music_analysis = sheet
       /\ audio_analysis = audio
       /\ disable_dynamics = FALSE
       /\ pc = "rhythm"
       /\ alignment = AlignmentStep(gen, sheet, audio)
       /\ pitch_feedback = PitchStep(gen, sheet, audio)
       /\ rhythm_feedback = None
       /\ tempo_feedback = None
       /\ dynamics_feedback = None
       /\ overall_score = None
       /\ generated = None
       /\ recommendations = None
       /\ summary = None
       /\ feedback = None
       /\ NoRequests

SpecTiming == InitTiming /\ [][AnalyzeRhythm \/ AnalyzeTempo]_vars

\* SpecDynamics: _analyze_dynamics, entered after the pitch, rhythm and tempo
\* analyses of the default input, on all series of up to MaxSamples samples
MaxSamples == 4
DynamicsSamples == {[db |-> -40, level |-> "pp"], [db |-> -40, level |-> "p"],
                    [db |-> -10, level |-> "p"], [db |-> -10, level |-> "mf"],
                    [db |-> -10, level |-> "ff"], [db |-> -5, level |-> "mf"],
                    [db |-> -5, level |-> "ff"]}
DynamicsSeries == UNION {[1..n -> DynamicsSamples] : n \in 0..MaxSamples}

DefaultPitchFeedback == [g \in Generators |-> PitchStep(g, DefaultSheet, DefaultAudio)]
DefaultAlignment == [g \in Generators |-> AlignmentStep(g, DefaultSheet, DefaultAudio)]
DefaultRhythmFeedback == [g \in Generators |-> RhythmStep(g, DefaultSheet, DefaultAudio)]
DefaultTempoFeedback == TempoStep(DefaultSheet, DefaultAudio)

InitDynamics ==
  \E gen \in Generators, dyn \in DynamicsSeries :
    /\ generator = gen
    /\ llm_pipeline = None
    /\ sheet_music_analysis = DefaultSheet
    /\ audio_analysis = [DefaultAudio EXCEPT !.dynamics = dyn]
    /\ disable_dynamics = FALSE
    /\ pc = "dynamics"
    /\ alignment = DefaultAlignment[gen]
    /\ pitch_feedback = DefaultPitchFeedback[gen]
    /\ rhythm_feedback = DefaultRhythmFeedback[gen]
    /\ tempo_feedback = DefaultTempoFeedback
    /\ dynamics_feedback = None
    /\ overall_score = None
    /\ generated = None
    /\ recommendations = None
    /\ summary = None
    /\ feedback = None
    /\ NoRequests

SpecDynamics == InitDynamics /\ [][AnalyzeDynamics]_vars

\* SpecOverall: _calculate_overall_score called on score dicts: every pitch score
\* with the rhythm and tempo scores equal to it or among scores the scorers give,
\* with dynamics disabled or with a score _analyze_dynamics gives
MaxScore == 100
RhythmScores == {65, 75, 100}
TempoScores == {50, 85}
DynamicsScores == {50, 85}

InitOverall ==
  \E p \in 0..MaxScore, r \in RhythmScores \cup {-1}, t \in TempoScores \cup {-1},
     d \in DynamicsScores \cup {-1} :
    /\ (r = -1) = (t = -1)
    /\ generator \in Generators
    /\ llm_pipeline = None
    /\ sheet_music_analysis = DefaultSheet
    /\ audio_analysis = DefaultAudio
    /\ disable_dynamics = (d = -1)
    /\ pc = "overall"
    /\ alignment = None
    /\ pitch_feedback = [score |-> p]
    /\ rhythm_feedback = [score |-> IF r = -1 THEN p ELSE r]
    /\ tempo_feedback = [score |-> IF t = -1 THEN p ELSE t]
    /\ dynamics_feedback = IF d = -1 THEN None ELSE [score |-> d]
    /\ overall_score = None
    /\ generated = None
    /\ recommendations = None
    /\ summary = None
    /\ feedback = None
    /\ NoRequests

SpecOverall == InitOverall /\ [][CalculateOverallScore]_vars

\* Spec: whole calls of generate_feedback
TestExpected == {<<>>, <<[pitch |-> "C4", start_time |-> 0],
                          [pitch |-> "D4", start_time |-> 1]>>}
TestPlayed == {<<>>,
               <<[pitch |-> "C4", start_time |-> 0]>>,
               <<[pitch |-> "C4", start_time |-> 0], [pitch |-> "D4", start_time |-> 1]>>,
               <<[pitch |-> "D4", start_time |-> 0], [pitch |-> "D4", start_time |-> 1]>>,
               <<[pitch |-> "C4", start_time |-> 0, duration |-> -1],
                 [pitch |-> "D4", start_time |-> 1, duration |-> 1]>>}
TestTempos == {<<120, 120>>, <<120, 112>>, <<120, 100>>, <<120, 140>>, <<0, 120>>}
TestStdIois == {0, 120, 200}
TestDynamics == {<<>>,
                 <<[db |-> -10, level |-> "mf"]>>,
                 <<[db |-> -40, level |-> "p"], [db |-> -10, level |-> "mf"],
                   [db |-> -5, level |-> "ff"]>>,
                 <<[db |-> -40, level |-> "pp"], [db |-> -40, level |-> "p"],
                   [db |-> -10, level |-> "mf"], [db |-> -5, level |-> "ff"]>>}

Init ==
  \E gen \in Generators, loaded \in BOOLEAN, e \in TestExpected, p \in TestPlayed,
     tempos \in TestTempos, std \in TestStdIois, dyn \in TestDynamics,
     disable \in BOOLEAN :
    /\ gen = Legacy => ~loaded
    /\ Called(gen, IF loaded THEN [task |-> "text-generation"] ELSE None,
              [notes |-> e, tempo |-> tempos[1]],
              [notes |-> p, tempo |-> tempos[2], rhythm |-> [std_ioi |-> std],
               dynamics |-> dyn],
              disable)

Spec == Init /\ [][Next]_vars

(***************************************************************************)
(* generate_feedback with the call of the generative backend as a step of   *)
(* its own: _generate_recommendations_llm calls self.llm_pipeline(prompt,   *)
(* ...) and goes on when the call returns or raises.  The call carries no   *)
(* timeout, so how long it takes is the backend's business.                 *)
(***************************************************************************)
\* the recommendation stage gets as far as the call of the backend
BackendCalled ==
  /\ generator = Real
  /\ Truthy(llm_pipeline)
  /\ ~Raised(build_feedback_context(pitch_feedback, rhythm_feedback, tempo_feedback,
                                    dynamics_feedback, overall_score))

CallPipeline ==
  /\ pc = "recommend"
  /\ BackendCalled
  /\ pc' = "llm_pipeline"
  /\ UNCHANGED <<web, inputs, alignment, pitch_feedback, rhythm_feedback, tempo_feedback,
                 dynamics_feedback, overall_score, generated, recommendations, summary,
                 feedback>>

\* the backend answers (with text or by raising) and the rest of
\* _generate_recommendations_llm runs
PipelineAnswers ==
  /\ pc = "llm_pipeline"
  /\ \E out \in LLMOutputs :
       /\ generated' = out
       /\ recommendations' =
            generate_recommendations_llm(llm_pipeline, out, pitch_feedback, rhythm_feedback,
                                         tempo_feedback, dynamics_feedback,
                                         overall_score).returned
  /\ pc' = "summary"
  /\ UNCHANGED <<web, inputs, alignment, pitch_feedback, rhythm_feedback, tempo_feedback,
                 dynamics_feedback, overall_score, summary, feedback>>

\* the recommendation stage of a call that never reaches the backend
RecommendWithoutBackend == ~BackendCalled /\ GenerateRecommendations

\* the steps the recommendation stage and what follows take by themselves
ProgramStep ==
  \/ CallPipeline
  \/ RecommendWithoutBackend
  \/ GenerateSummary

NextBackend ==
  \/ CallPipeline
  \/ PipelineAnswers
  \/ RecommendWithoutBackend
  \/ GenerateSummary

\* calls of RealFeedbackGenerator with a backend loaded, as they enter
\* _generate_recommendations_llm
InitBackend ==
  \E tempos \in TestTempos, std \in TestStdIois, dyn \in TestDynamics,
     disable \in BOOLEAN :
    LET sheet == [DefaultSheet EXCEPT !.tempo = tempos[1]]
        audio == [DefaultAudio EXCEPT !.tempo = tempos[2], !.rhythm = [std_ioi |-> std],
                                      !.dynamics = dyn]
    IN /\ tempos[1] # 0
       /\ generator = Real
       /\ llm_pipeline = [task |-> "text-generation"]
       /\ sheet_music_analysis = sheet
       /\ audio_analysis = audio
       /\ disable_dynamics = disable
       /\ pc = "recommend"
       /\ alignment = AlignmentStep(Real, sheet, audio)
       /\ pitch_feedback = PitchStep(Real, sheet, audio)
       /\ rhythm_feedback = RhythmStep(Real, sheet, audio)
       /\ tempo_feedback = TempoStep(sheet, audio)
       /\ dynamics_feedback = DynamicsStep(audio, disable)
       /\ overall_score = calculate_overall_score(pitch_feedback, rhythm_feedback,
                                                  tempo_feedback, dynamics_feedback)
       /\ generated = None
       /\ recommendations = None
       /\ summary = None
       /\ feedback = None
       /\ NoRequests

\* the interpreter keeps running generate_feedback; nothing makes the backend answer
SpecBackend == InitBackend /\ [][NextBackend]_vars /\ WF_vars(ProgramStep)

(***************************************************************************)
(* SessionManager (src/src/session_manager.py) over the table              *)
(* practice_sessions, as the route analyze_performance of app.py uses it:   *)
(* after generate_feedback, save_session and then compare_with_previous.    *)
(* Flask serves each request in a thread of its own, so the steps of two    *)
(* requests interleave.                                                     *)
(***************************************************************************)
engine == <<generator, llm_pipeline, sheet_music_analysis, audio_analysis,
            disable_dynamics, pc, alignment, pitch_feedback, rhythm_feedback,
            tempo_feedback, dynamics_feedback, overall_score, generated,
            recommendations, summary, feedback>>

\* the text column holds the JSON of the value
json_dumps(v) == [text |-> v]
json_loads(s) == s.text

FirstAttempt ==
  [has_previous |-> FALSE, message |-> "This is your first attempt at this piece!"]

\* a change of 5 counted as an improvement
Improvements_from_five(current_feedback, previous_feedback) ==
  LET Block(dim) ==
        LET change == current_feedback[dim].score - previous_feedback[dim].score
        IN IF change >= 5 THEN <<[dimension |-> dim, points |-> change]>> ELSE <<>>
  IN Block("pitch") \o Block("rhythm") \o Block("tempo")

\* the three dimension blocks of compare_with_previous: a change above 5 is
\* appended to improvements, one below -5 to needs_work
Improvements(current_feedback, previous_feedback) ==
  LET Block(dim) ==
        LET change == current_feedback[dim].score - previous_feedback[dim].score
        IN IF change > 5 THEN <<[dimension |-> dim, points |-> change]>> ELSE <<>>
  IN Block("pitch") \o Block("rhythm") \o Block("tempo")

NeedsWork(current_feedback, previous_feedback) ==
  LET Block(dim) ==
        LET change == current_feedback[dim].score - previous_feedback[dim].score
        IN IF change <= 5 /\ change < -5
           THEN <<[dimension |-> dim, points |-> Abs(change)]>> ELSE <<>>
  IN Block("pitch") \o Block("rhythm") \o Block("tempo")

\* the change taken as previous minus current
Comparison_reversed(current, previous, previous_sessions) ==
  LET current_feedback == json_loads(current.feedback)
      previous_feedback == json_loads(previous.feedback)
      score_change == previous.score - current.score
      improvements == Improvements(current_feedback, previous_feedback)
      needs_work == NeedsWork(current_feedback, previous_feedback)
      message == IF score_change > 0
                 THEN [kind |-> "improved", points |-> score_change]
                 ELSE IF score_change < 0
                 THEN [kind |-> "decreased", points |-> Abs(score_change)]
                 ELSE [kind |-> "remained the same"]
  IN [has_previous |-> TRUE,
      previous_date |-> previous.session_date,
      previous_score |-> previous.score,
      current_score |-> current.score,
      score_change |-> score_change,
      message |-> message,
      improvements |-> IF improvements # <<>> THEN improvements
                       ELSE <<[default |-> "Keep up the consistent work!"]>>,
      needs_work |-> IF needs_work # <<>> THEN needs_work
                     ELSE <<[default |-> "All areas maintained or improved!"]>>,
      total_attempts |-> Cardinality(previous_sessions) + 1]

\* needs_work returned empty when nothing regressed
Comparison_no_default(current, previous, previous_sessions) ==
  LET current_feedback == json_loads(current.feedback)
      previous_feedback == json_loads(previous.feedback)
      score_change == current.score - previous.score
      improvements == Improvements(current_feedback, previous_feedback)
      needs_work == NeedsWork(current_feedback, previous_feedback)
      message == IF score_change > 0
                 THEN [kind |-> "improved", points |-> score_change]
                 ELSE IF score_change < 0
                 THEN [kind |-> "decreased", points |-> Abs(score_change)]
                 ELSE [kind |-> "remained the same"]
  IN [has_previous |-> TRUE,
      previous_date |-> previous.session_date,
      previous_score |-> previous.score,
      current_score |-> current.score,
      score_change |-> score_change,
      message |-> message,
      improvements |-> IF improvements # <<>> THEN improvements
                       ELSE <<[default |-> "Keep up the consistent work!"]>>,
      needs_work |-> needs_work,
      total_attempts |-> Cardinality(previous_sessions) + 1]

\* compare_with_previous from line 185 on: current and previous are rows,
\* previous_sessions the rows the query gave
Comparison(current, previous, previous_sessions) ==
  LET current_feedback == json_loads(current.feedback)
      previous_feedback == json_loads(previous.feedback)
      score_change == current.score - previous.score
      improvements == Improvements(current_feedback, previous_feedback)
      needs_work == NeedsWork(current_feedback, previous_feedback)
      message == IF score_change > 0
                 THEN [kind |-> "improved", points |-> score_change]
                 ELSE IF score_change < 0
                 THEN [kind |-> "decreased", points |-> Abs(score_change)]
                 ELSE [kind |-> "remained the same"]
  IN [has_previous |-> TRUE,
      previous_date |-> previous.session_date,
      previous_score |-> previous.score,
      current_score |-> current.score,
      score_change |-> score_change,
      message |-> message,
      improvements |-> IF improvements # <<>> THEN improvements
                       ELSE <<[default |-> "Keep up the consistent work!"]>>,
      needs_work |-> IF needs_work # <<>> THEN needs_work
                     ELSE <<[default |-> "All areas maintained or improved!"]>>,
      total_attempts |-> Cardinality(previous_sessions) + 1]

\* the query without id != current_session_id
PreviousSessions_with_current(rows, piece_id, current_session_id) ==
  {row \in Range(rows) : row.piece_id = piece_id}

\* filter(piece_id == piece_id, id != current_session_id)
PreviousSessions(rows, piece_id, current_session_id) ==
  {row \in Range(rows) : row.piece_id = piece_id /\ row.id # current_session_id}

\* order_by(session_date.desc()) ... [0]: a row no other row is later than; the
\* database orders rows of equal session_date either way
MostRecent(rows) == {row \in rows : \A other \in rows : other.session_date <= row.session_date}

\* save_session up to the constructor: session_date is read from the clock,
\* which does not run backwards and may not have advanced since the last read
NewSession(r) ==
  /\ r \in DOMAIN request
  /\ request[r].pc = "save_session"
  /\ \E now \in {utcnow, utcnow + 1} :
       /\ utcnow' = now
       /\ request' = [request EXCEPT
            ![r].session = [piece_id |-> request[r].piece_id,
                            feedback |-> json_dumps(request[r].feedback),
                            score |-> request[r].feedback.overall_score,
                            session_date |-> now],
            ![r].pc = "commit"]
  /\ UNCHANGED <<practice_sessions, engine>>

\* db_session.add(session); db_session.commit(): the row gets the next id
Commit(r) ==
  /\ r \in DOMAIN request
  /\ request[r].pc = "commit"
  /\ LET id == Len(practice_sessions) + 1
         session == request[r].session
     IN /\ practice_sessions' =
             Append(practice_sessions,
                    [id |-> id, piece_id |-> session.piece_id,
                     feedback |-> session.feedback, score |-> session.score,
                     session_date |-> session.session_date])
        /\ request' = [request EXCEPT ![r].session_id = id,
                                      ![r].pc = "compare_with_previous"]
  /\ UNCHANGED <<utcnow, engine>>

\* compare_with_previous(piece_id, session_id), then the route returns
CompareWithPrevious(r) ==
  /\ r \in DOMAIN request
  /\ request[r].pc = "compare_with_previous"
  /\ LET found == {row \in Range(practice_sessions) : row.id = request[r].session_id}
         previous_sessions == PreviousSessions(practice_sessions, request[r].piece_id,
                                               request[r].session_id)
     IN IF found = {} \/ previous_sessions = {}
        THEN request' = [request EXCEPT ![r].comparison = FirstAttempt,
                                        ![r].pc = "done"]
        ELSE \E current \in found, previous \in MostRecent(previous_sessions) :
               request' = [request EXCEPT
                 ![r].previous = previous,
                 ![r].comparison = Comparison(current, previous, previous_sessions),
                 ![r].pc = "done"]
  /\ UNCHANGED <<practice_sessions, utcnow, engine>>

NextRequest ==
  \/ \E r \in DOMAIN request : NewSession(r)
  \/ \E r \in DOMAIN request : Commit(r)
  \/ \E r \in DOMAIN request : CompareWithPrevious(r)

\* SpecSessions: two requests, each with the feedback of its performance, on a
\* table that holds up to MaxStored sessions of earlier days
MaxStored == 1
Pieces == {1, 2}
Requests == {1, 2}

\* a feedback dict as far as the session manager reads it
ScoreDict(p, r, t) ==
  [overall_score |-> calculate_overall_score([score |-> p], [score |-> r],
                                             [score |-> t], None),
   pitch |-> [score |-> p], rhythm |-> [score |-> r], tempo |-> [score |-> t]]
StoredFeedback == ScoreDict(40, 80, 70)
SessionFeedbacks == {StoredFeedback, ScoreDict(67, 80, 70), ScoreDict(45, 85, 70),
                     ScoreDict(46, 90, 85), ScoreDict(34, 80, 85), ScoreDict(35, 75, 70)}
StoredSessions ==
  UNION {{[i \in 1..n |-> [id |-> i, piece_id |-> of[i],
                           feedback |-> json_dumps(StoredFeedback),
                           score |-> StoredFeedback.overall_score,
                           session_date |-> 0]] : of \in [1..n -> Pieces]}
         : n \in 0..MaxStored}

InitSessions ==
  /\ generator = Real
  /\ llm_pipeline = None
  /\ sheet_music_analysis = DefaultSheet
  /\ audio_analysis = DefaultAudio
  /\ disable_dynamics = TRUE
  /\ pc = "done"
  /\ alignment = None
  /\ pitch_feedback = None
  /\ rhythm_feedback = None
  /\ tempo_feedback = None
  /\ dynamics_feedback = None
  /\ overall_score = None
  /\ generated = None
  /\ recommendations = None
  /\ summary = None
  /\ feedback = None
  /\ practice_sessions \in StoredSessions
  /\ utcnow = 1
  /\ \E piece_id \in [Requests -> Pieces], fb \in [Requests -> SessionFeedbacks] :
       /\ piece_id[1] = 1
       /\ request = [r \in Requests |->
                       [pc |-> "save_session", piece_id |-> piece_id[r],
                        feedback |-> fb[r], session |-> None, session_id |-> 0,
                        previous |-> None, comparison |-> None]]

SpecSessions == InitSessions /\ [][NextRequest]_vars

(***************************************************************************)
(* Properties.  Analysed(x) says the scorer that writes x has returned.    *)
(***************************************************************************)
PitchAnalysed == Truthy(pitch_feedback)
expected_aligned == SortedByStartTime(sheet_music_analysis.notes)
played_aligned == SortedByStartTime(audio_analysis.notes)

\* C1: in the time-window alignment no played note is matched to two expected
\* notes (each expected note has one match at most by construction)
C1_NoDoubleClaiming ==
  (/\ PitchAnalysed /\ generator = Real
   /\ sheet_music_analysis.notes # <<>> /\ audio_analysis.notes # <<>>) =>
    \A i, j \in DOMAIN alignment :
      (i # j /\ alignment[i] # 0) => alignment[i] # alignment[j]

\* C2: with both lists in start-time order, a later expected note is never
\* matched to an earlier played note than an earlier expected note is
C2_AlignmentMonotonic ==
  (PitchAnalysed /\ generator = Real) =>
    \A i, j \in DOMAIN alignment :
      (i < j /\ alignment[i] # 0 /\ alignment[j] # 0) => alignment[i] <= alignment[j]

\* two expected notes matched to different played notes, from lists that were
\* not given in start-time order
C2_Witness ==
  /\ PitchAnalysed /\ generator = Real
  /\ Len(alignment) >= 2
  /\ alignment[1] # 0 /\ alignment[1] < alignment[2]
  /\ sheet_music_analysis.notes # expected_aligned
  /\ audio_analysis.notes # played_aligned

\* C3: the pitch score is 100 * correct / total rounded to the nearest integer
\* (0 when total = 0), total being the number of expected notes
C3_PitchScoreRounded ==
  PitchAnalysed =>
    LET total == Len(sheet_music_analysis.notes)
        correct == pitch_feedback.correct_notes
    IN /\ pitch_feedback.total_notes = total
       /\ IF total = 0 THEN pitch_feedback.score = 0
          ELSE 2 * Abs(100 * correct - total * pitch_feedback.score) <= total

TempoAnalysed == Truthy(tempo_feedback)
tempo_difference == Abs(sheet_music_analysis.tempo - audio_analysis.tempo)

\* C4: the tempo result is the first band the percentage difference
\* 100 * |expected - performed| / expected falls in: below 5 excellent/100,
\* below 10 good/85, below 15 fair/70, otherwise needs_improvement/50, so that
\* exactly 5, 10 and 15 percent score 85, 70 and 50
C4_TempoBands ==
  TempoAnalysed =>
    LET expected == sheet_music_analysis.tempo
        hundredfold == 100 * tempo_difference
        band == IF hundredfold < 5 * expected THEN <<"excellent", 100>>
                ELSE IF hundredfold < 10 * expected THEN <<"good", 85>>
                ELSE IF hundredfold < 15 * expected THEN <<"fair", 70>>
                ELSE <<"needs_improvement", 50>>
    IN /\ tempo_feedback.rating = band[1]
       /\ tempo_feedback.score = band[2]
       /\ hundredfold = 5 * expected => tempo_feedback.score = 85
       /\ hundredfold = 10 * expected => tempo_feedback.score = 70
       /\ hundredfold = 15 * expected => tempo_feedback.score = 50

\* a performance exactly 5 percent off the expected tempo was rated good
C4_Witness ==
  /\ TempoAnalysed
  /\ sheet_music_analysis.tempo > 0
  /\ 100 * tempo_difference = 5 * sheet_music_analysis.tempo
  /\ tempo_feedback.score = 85

RhythmAnalysed == Truthy(rhythm_feedback)

\* C9: the rhythm score is 100, less 20 if the tempos differ by more than 10 BPM
\* or else less 10 if by more than 5, less a further 15 exactly when std_ioi is
\* above 0.15 s, and never negative; std_ioi in (0.10, 0.15] costs nothing
C9_RhythmScore ==
  RhythmAnalysed =>
    LET std_ioi == audio_analysis.rhythm.std_ioi
        tempo_penalty == IF tempo_difference > 10 THEN 20
                         ELSE IF tempo_difference > 5 THEN 10 ELSE 0
        uneven_penalty == IF std_ioi > 150 THEN 15 ELSE 0
    IN /\ rhythm_feedback.score = 100 - tempo_penalty - uneven_penalty
       /\ rhythm_feedback.score >= 0
       /\ (std_ioi > 100 /\ std_ioi <= 150) =>
            rhythm_feedback.score = 100 - tempo_penalty

OverallCalculated == pc \in {"recommend", "summary", "done"}

\* C5: the overall score is the weighted sum 0.4 pitch + 0.3 rhythm + 0.2 tempo
\* + 0.1 dynamics, or the first three terms divided by 0.9 when dynamics is
\* disabled, rounded to the nearest integer (either neighbour on a tie)
C5_OverallRounded ==
  OverallCalculated =>
    LET three == 4 * pitch_feedback.score + 3 * rhythm_feedback.score
                   + 2 * tempo_feedback.score
    IN IF Truthy(dynamics_feedback)
       THEN 2 * Abs(10 * overall_score - (three + dynamics_feedback.score)) <= 10
       ELSE 2 * Abs(9 * overall_score - three) <= 9

\* C6: with dynamics disabled and pitch, rhythm and tempo all scored s, the
\* overall score is s
C6_EqualScores ==
  (/\ OverallCalculated /\ ~Truthy(dynamics_feedback)
   /\ rhythm_feedback.score = pitch_feedback.score
   /\ tempo_feedback.score = pitch_feedback.score) =>
    overall_score = pitch_feedback.score

DynamicsAnalysed == Truthy(dynamics_feedback) /\ audio_analysis.dynamics # <<>>
series == audio_analysis.dynamics
levels_in_series == {series[i].level : i \in DOMAIN series}
\* the dB range of the series is r
SeriesRange(r) ==
  /\ \E i, j \in DOMAIN series : series[i].db - series[j].db = r
  /\ \A i, j \in DOMAIN series : series[i].db - series[j].db <= r

\* C7: a series using exactly the levels p, mf and ff over a range of 35 dB
\* scores 100 with variety "good"
C7_ThreeLevelsScore100 ==
  (DynamicsAnalysed /\ levels_in_series = {"p", "mf", "ff"} /\ SeriesRange(35)) =>
    (dynamics_feedback.score = 100 /\ dynamics_feedback.variety = "good")

\* C7 amended: a series using exactly the levels p, mf and ff over a range of
\* 35 dB scores 85 (70 and the range bonus; three levels earn no levels bonus)
\* with variety "good"
C7_ThreeLevelsScore85 ==
  (DynamicsAnalysed /\ levels_in_series = {"p", "mf", "ff"} /\ SeriesRange(35)) =>
    (dynamics_feedback.score = 85 /\ dynamics_feedback.variety = "good")

C7_Witness ==
  /\ DynamicsAnalysed /\ levels_in_series = {"p", "mf", "ff"} /\ SeriesRange(35)
  /\ dynamics_feedback.score = 85

\* C8: on a non-empty series the dynamics score is 70, plus 15 if the dB range is
\* above 30, plus 15 if at least 4 distinct levels occur, at most 100; variety is
\* "good" exactly when at least 3 distinct levels occur, otherwise "limited"
C8_DynamicsScore ==
  DynamicsAnalysed =>
    LET wide == \E i, j \in DOMAIN series : series[i].db - series[j].db > 30
        sum == 70 + (IF wide THEN 15 ELSE 0)
                  + (IF Cardinality(levels_in_series) >= 4 THEN 15 ELSE 0)
    IN /\ dynamics_feedback.score = (IF sum > 100 THEN 100 ELSE sum)
       /\ dynamics_feedback.variety \in {"good", "limited"}
       /\ dynamics_feedback.variety = "good" <=> Cardinality(levels_in_series) >= 3

\* both bonuses earned
C8_Witness ==
  /\ DynamicsAnalysed
  /\ Cardinality(levels_in_series) >= 4
  /\ \E i, j \in DOMAIN series : series[i].db - series[j].db > 30
  /\ dynamics_feedback.score = 100

Recommended == pc \in {"summary", "done"}
\* the place of a template rule in the trigger order, 0 for other entries
RuleRank(rec) ==
  CASE rec.rule = "pitch" -> 1
    [] rec.rule = "pitch_notes" -> 2
    [] rec.rule = "rhythm" -> 3
    [] rec.rule = "tempo" -> 4
    [] rec.rule = "dynamics" -> 5
    [] OTHER -> 0
FromTemplate(recs) == \A k \in DOMAIN recs : RuleRank(recs[k]) > 0
FromBackend(recs) == \A k \in DOMAIN recs : recs[k].rule = "llm"
Usable(i) == generated.lines[i] > MinLineLength

\* C10: whatever the backend does, the recommendations generate_feedback returns
\* number 1 to 5, and they are the first entries in order: template advice in
\* the order pitch, rhythm, tempo, dynamics (or the one positive message), lines
\* of the backend in the order generated with no usable line passed over
C10_RecommendationsBounded ==
  Recommended =>
    /\ Len(recommendations) >= 1
    /\ Len(recommendations) <= 5
    /\ \/ recommendations = <<[rule |-> "positive"]>>
       \/ /\ FromTemplate(recommendations)
          /\ \A k, l \in DOMAIN recommendations :
               k < l => RuleRank(recommendations[k]) < RuleRank(recommendations[l])
       \/ /\ FromBackend(recommendations)
          /\ generator = Real /\ Truthy(llm_pipeline) /\ ~Raised(generated)
          /\ \A k \in DOMAIN recommendations :
               LET i == recommendations[k].line
               IN /\ i \in DOMAIN generated.lines /\ Usable(i)
                  /\ Cardinality({h \in 1..i : Usable(h)}) = k

\* the backend gave fewer than two usable lines and the template advised on
\* pitch and then on tempo
C10_Witness ==
  /\ pc = "done" /\ generator = Real /\ Truthy(llm_pipeline) /\ ~Raised(generated)
  /\ Len(generated.lines) >= 1
  /\ Len(recommendations) = 2
  /\ recommendations[1].rule = "pitch" /\ recommendations[2].rule = "tempo"
  /\ feedback.recommendations = recommendations

\* the lines of the generated text that are taken as recommendations
UsableLines == {i \in DOMAIN generated.lines : Usable(i)}
\* the recommendations were written by the templates
TemplatePath ==
  \/ generator = Legacy
  \/ ~Truthy(llm_pipeline)
  \/ Raised(generated)
  \/ Cardinality(UsableLines) < 2
PitchRule == pitch_feedback.score < 70
RhythmRule ==
  rhythm_feedback.score < 70 /\ rhythm_feedback.rhythm_consistency = "needs_work"
TempoRule == tempo_feedback.score < 70
DynamicsRule ==
  /\ Truthy(dynamics_feedback)
  /\ dynamics_feedback.score < 70
  /\ "variety" \in DOMAIN dynamics_feedback
  /\ dynamics_feedback.variety = "limited"
IsPositive(rec) == rec.rule = "positive"

\* C11: on the template path the recommendations are the one positive message
\* exactly when no pitch, rhythm, tempo or dynamics rule triggered, and the
\* positive message never stands beside a piece of advice
C11_PositiveIffNoRule ==
  (Recommended /\ TemplatePath) =>
    /\ (recommendations = <<[rule |-> "positive"]>>)
         <=> ~(PitchRule \/ RhythmRule \/ TempoRule \/ DynamicsRule)
    /\ (\E k \in DOMAIN recommendations : IsPositive(recommendations[k]))
         => Len(recommendations) = 1

\* the templates praised a performance that scored at least 70 everywhere
C11_Witness ==
  /\ pc = "done" /\ generator = Real /\ TemplatePath
  /\ ~(PitchRule \/ RhythmRule \/ TempoRule \/ DynamicsRule)
  /\ Len(recommendations) = 1 /\ IsPositive(recommendations[1])
  /\ Len(feedback.recommendations) = 1

\* what the template rules give for the feedback in the state
TemplateAdvice ==
  LET advice ==
        (IF PitchRule THEN <<[rule |-> "pitch"]>> ELSE <<>>)
        \o (IF RhythmRule THEN <<[rule |-> "rhythm"]>> ELSE <<>>)
        \o (IF TempoRule
            THEN <<[rule |-> "tempo",
                    direction |-> IF audio_analysis.tempo < sheet_music_analysis.tempo
                                  THEN "too slowly" ELSE "too fast"]>>
            ELSE <<>>)
        \o (IF DynamicsRule THEN <<[rule |-> "dynamics"]>> ELSE <<>>)
  IN IF advice = <<>> THEN <<[rule |-> "positive"]>> ELSE advice
ContextBuilt ==
  ~(Truthy(dynamics_feedback) /\ "variety" \notin DOMAIN dynamics_feedback)

Dimensions == {"pitch", "rhythm", "tempo"}
\* request r has returned a comparison against a previous session
Compared(r) == request[r].pc = "done" /\ request[r].comparison.has_previous
\* current score minus previous score of a dimension
Delta(r, dim) ==
  request[r].feedback[dim].score - request[r].previous.feedback.text[dim].score
Listed(list, dim) ==
  \E k \in DOMAIN list : "dimension" \in DOMAIN list[k] /\ list[k].dimension = dim

\* C13: a dimension is under improvements exactly when its score rose by more
\* than 5 and under needs_work exactly when it fell by more than 5; a change of
\* exactly 5 or -5 puts it in neither list
C13_DeltaClassification ==
  \A r \in DOMAIN request :
    Compared(r) =>
      \A dim \in Dimensions :
        /\ Listed(request[r].comparison.improvements, dim) <=> Delta(r, dim) > 5
        /\ Listed(request[r].comparison.needs_work, dim) <=> Delta(r, dim) < -5
        /\ (Delta(r, dim) = 5 \/ Delta(r, dim) = -5) =>
             /\ ~Listed(request[r].comparison.improvements, dim)
             /\ ~Listed(request[r].comparison.needs_work, dim)

\* the pitch score rose by exactly 5 and pitch was left out of both lists
C13_Witness ==
  \E r \in DOMAIN request :
    /\ Compared(r)
    /\ Delta(r, "pitch") = 5
    /\ ~Listed(request[r].comparison.improvements, "pitch")
    /\ ~Listed(request[r].comparison.needs_work, "pitch")

\* C14: with a previous session the reported change is the current overall
\* score minus the previous one, and the message tells an improvement exactly
\* when it is positive, a decrease when negative, an unchanged score when 0
C14_OverallChange ==
  \A r \in DOMAIN request :
    Compared(r) =>
      LET change == request[r].feedback.overall_score - request[r].previous.score
          kind == request[r].comparison.message.kind
      IN /\ request[r].comparison.score_change = change
         /\ kind = "improved" <=> change > 0
         /\ kind = "decreased" <=> change < 0
         /\ kind = "remained the same" <=> change = 0

\* previous 60, current 72: a change of 12 reported as an improvement
C14_Witness ==
  \E r \in DOMAIN request :
    /\ Compared(r)
    /\ request[r].previous.score = 60 /\ request[r].feedback.overall_score = 72
    /\ request[r].comparison.score_change = 12
    /\ request[r].comparison.message.kind = "improved"

\* the other sessions stored for the piece of request r
OtherSessions(r) ==
  {row \in Range(practice_sessions) :
     row.piece_id = request[r].piece_id /\ row.id # request[r].session_id}

C16_DefaultLines ==
  \A r \in DOMAIN request :
    (Compared(r) /\ \A dim \in Dimensions : Delta(r, dim) <= 5 /\ Delta(r, dim) >= -5) =>
      /\ request[r].comparison.improvements
           = <<[default |-> "Keep up the consistent work!"]>>
      /\ request[r].comparison.needs_work
           = <<[default |-> "All areas maintained or improved!"]>>

\* some score changed, none by more than 5, and both default lines came back
C16_Witness ==
  \E r \in DOMAIN request :
    /\ Compared(r)
    /\ \A dim \in Dimensions : Delta(r, dim) <= 5 /\ Delta(r, dim) >= -5
    /\ \E dim \in Dimensions : Delta(r, dim) # 0
    /\ Len(request[r].comparison.improvements) = 1
    /\ Len(request[r].comparison.needs_work) = 1

\* C17: the session a request is compared against was saved before the
\* request's own session, and it is the most recent of those of the piece
C17_PreviousSavedEarlier ==
  \A r \in DOMAIN request :
    Compared(r) =>
      /\ request[r].previous.id < request[r].session_id
      /\ \A row \in Range(practice_sessions) :
           (row.piece_id = request[r].piece_id /\ row.id < request[r].session_id) =>
             row.session_date <= request[r].previous.session_date

(***************************************************************************)
(* Error handling of generate_feedback.                                    *)
(***************************************************************************)
FeedbackFields == {"overall_score", "pitch", "rhythm", "tempo", "dynamics",
                   "recommendations", "summary"}

\* the dict generate_feedback returns has every field, and all but dynamics
\* (None when dynamics is disabled) hold a value
Complete(fb) ==
  /\ DOMAIN fb = FeedbackFields
  /\ fb.overall_score \in 0..MaxScore
  /\ Truthy(fb.pitch) /\ ~Raised(fb.pitch)
  /\ Truthy(fb.rhythm) /\ ~Raised(fb.rhythm)
  /\ Truthy(fb.tempo) /\ ~Raised(fb.tempo)
  /\ Truthy(fb.recommendations)
  /\ Truthy(fb.summary)

\* C18: generate_feedback either returns a complete Feedback (overall_score,
\* pitch, rhythm, tempo, recommendations and summary all present) or fails with
\* an error; a failure in a stage never gives a returned Feedback with some of
\* these fields missing, and nothing is returned before the last stage
C18_CompleteOrError ==
  /\ pc = "done" => Complete(feedback)
  /\ pc = "raised" => Raised(feedback)
  /\ pc \notin {"done", "raised"} => ~Truthy(feedback)

\* a stage failed after earlier stages had produced their results
C18_Witness ==
  /\ pc = "raised"
  /\ Raised(feedback)
  /\ Truthy(pitch_feedback) /\ Truthy(rhythm_feedback)

\* a note no performance can contain: its duration is negative
Malformed(note) == "duration" \in DOMAIN note /\ note.duration < 0
MalformedInput ==
  \E notes \in {sheet_music_analysis.notes, audio_analysis.notes} :
    \E i \in DOMAIN notes : Malformed(notes[i])

\* both sequences have notes, so _analyze_pitch_accuracy aligns them
AlignmentDue == Truthy(sheet_music_analysis.notes) /\ Truthy(audio_analysis.notes)

\* C19: a malformed note (negative duration) in the expected or performed
\* sequence is rejected with a ValidationError before alignment begins, so the
\* caller never receives pitch results computed from it
C19_MalformedRejected ==
  (MalformedInput /\ AlignmentDue /\ pc # "pitch") =>
    /\ pc = "raised"
    /\ feedback = Raise("ValidationError")
    /\ ~Truthy(pitch_feedback)

\* _analyze_tempo has been called and generate_feedback has moved on or failed
TempoCalled == pc \notin {"pitch", "rhythm", "tempo"}

\* C20: when the expected tempo is 0, _analyze_tempo does not fail: it treats
\* the difference as maximal and returns rating needs_improvement with score 0
C20_ZeroTempoGuarded ==
  (sheet_music_analysis.tempo = 0 /\ TempoCalled) =>
    /\ pc # "raised"
    /\ TempoAnalysed
    /\ tempo_feedback.rating = "needs_improvement"
    /\ tempo_feedback.score = 0

(***************************************************************************)
(* Edge cases of the inputs.                                               *)
(***************************************************************************)
\* dynamics feedback was asked for and the performance has no dynamics samples
EmptyDynamicsEnabled == ~disable_dynamics /\ audio_analysis.dynamics = <<>>
DynamicsCalled == pc \notin {"pitch", "rhythm", "tempo", "dynamics"}
NeutralDynamics == [score |-> 50, range |-> "limited", control |-> "unknown"]

\* C21: with dynamics enabled and an empty dynamics series the evaluation does
\* not raise: the dynamics result is the neutral one (score 50, range "limited",
\* control "unknown") and generate_feedback returns a complete Feedback
\* (the tempo stage having succeeded, i.e. the expected tempo is not 0)
C21_EmptyDynamicsNeutral ==
  (EmptyDynamicsEnabled /\ sheet_music_analysis.tempo # 0) =>
    /\ pc # "raised"
    /\ DynamicsCalled => dynamics_feedback = NeutralDynamics
    /\ pc = "done" => (Complete(feedback) /\ feedback.dynamics = NeutralDynamics)

\* what the errors of a pitch result report: the count of its entry of the given
\* type (0 without one), and the expected notes listed as MISSING
TypedCount(errors, type) ==
  LET typed == {i \in DOMAIN errors : "type" \in DOMAIN errors[i] /\ errors[i].type = type}
  IN IF typed = {} THEN 0 ELSE errors[CHOOSE i \in typed : TRUE].count
MissingReported(errors) ==
  Cardinality({i \in DOMAIN errors :
                 "played" \in DOMAIN errors[i] /\ errors[i].played = "MISSING"})
    + TypedCount(errors, "missing_notes")
ExtraReported(errors) == TypedCount(errors, "extra_notes")

\* C22: empty sequences do not raise and give defined results: with an empty
\* performed sequence every expected note is reported as missing and the pitch
\* score is 0 with total the number of expected notes; with an empty expected
\* sequence every performed note is reported as extra and the result is 0
\* correct of 0 total with score 0
C22_EmptySequences ==
  PitchAnalysed =>
    /\ audio_analysis.notes = <<>> =>
         /\ pitch_feedback.score = 0
         /\ pitch_feedback.total_notes = Len(sheet_music_analysis.notes)
         /\ MissingReported(pitch_feedback.errors) = Len(sheet_music_analysis.notes)
    /\ sheet_music_analysis.notes = <<>> =>
         /\ pitch_feedback.score = 0
         /\ pitch_feedback.correct_notes = 0
         /\ pitch_feedback.total_notes = 0
         /\ ExtraReported(pitch_feedback.errors) = Len(audio_analysis.notes)

(***************************************************************************)
(* Ranges and order of the stages.                                         *)
(***************************************************************************)
Returned == pc = "done"

\* C23: whenever generate_feedback returns, every dimension score (pitch,
\* rhythm, tempo, and dynamics when present) and the overall_score are integers
\* in the range 0..100
C23_ScoresInRange ==
  Returned =>
    /\ feedback.overall_score \in 0..MaxScore
    /\ feedback.pitch.score \in 0..MaxScore
    /\ feedback.rhythm.score \in 0..MaxScore
    /\ feedback.tempo.score \in 0..MaxScore
    /\ Truthy(feedback.dynamics) => feedback.dynamics.score \in 0..MaxScore

\* a returned Feedback with dynamics present and every score at the top
C23_Witness ==
  /\ Returned
  /\ Truthy(feedback.dynamics)
  /\ feedback.dynamics.score = MaxScore
  /\ feedback.pitch.score = MaxScore
  /\ feedback.overall_score = MaxScore

\* the four analyses have given their results (dynamics is analysed unless disabled)
DimensionsScored ==
  /\ Truthy(pitch_feedback) /\ Truthy(rhythm_feedback) /\ Truthy(tempo_feedback)
  /\ ~disable_dynamics => Truthy(dynamics_feedback)

\* C24: within one generate_feedback call the recommendation step, and any call
\* to the generative backend, starts only after the pitch, rhythm, tempo and
\* dynamics scores and the overall score have all been computed
C24_ScoringBeforeRecommendation ==
  /\ [](pc = "recommend" => DimensionsScored)
  /\ [][pc' = "recommend" =>
          /\ pc = "overall"
          /\ overall_score' = calculate_overall_score(pitch_feedback, rhythm_feedback,
                                                      tempo_feedback, dynamics_feedback)]_vars
  /\ [][(Truthy(generated') \/ Truthy(recommendations')) =>
          pc \in {"recommend", "summary", "done"}]_vars

\* the backend was consulted in a call with dynamics enabled
C24_Witness ==
  /\ pc = "summary"
  /\ generator = Real
  /\ Truthy(generated) /\ ~Raised(generated)
  /\ Truthy(dynamics_feedback)

(***************************************************************************)
(* Termination.                                                            *)
(***************************************************************************)
\* C25: generate_feedback eventually returns even when the generative backend
\* never responds: the call of the backend is bounded by a timeout, after which
\* the evaluation completes with the template recommendations
C25_ReturnsDespiteBackend ==
  (pc = "llm_pipeline") ~> (Returned /\ (~Truthy(generated) => FromTemplate(recommendations)))

(***************************************************************************)
(* The time-window alignment in detail.                                    *)
(***************************************************************************)
TimeDiff(i, j) == Abs(played_aligned[j].start_time - expected_aligned[i].start_time)

\* the performed notes matched with the expected notes before the i-th
ClaimedBefore(i) == {alignment[k] : k \in 1..(i - 1)} \ {0}

\* the performed notes the i-th expected note can still be matched with
Candidates(i) ==
  {j \in DOMAIN played_aligned : j \notin ClaimedBefore(i) /\ TimeDiff(i, j) < WindowTicks}

\* C26: each expected note, taken in start-time order, is matched with the
\* not-yet-claimed performed note within the 0.5 s window that has the smallest
\* absolute time difference, ties going to the earliest performed note; without
\* such a candidate the expected note is reported as missing
C26_ClosestUnclaimed ==
  (/\ PitchAnalysed /\ generator = Real
   /\ sheet_music_analysis.notes # <<>> /\ audio_analysis.notes # <<>>) =>
    \A i \in DOMAIN alignment :
      IF Candidates(i) = {}
      THEN /\ alignment[i] = 0
           /\ \E k \in DOMAIN pitch_feedback.errors :
                /\ "position" \in DOMAIN pitch_feedback.errors[k]
                /\ pitch_feedback.errors[k].position = i - 1
                /\ pitch_feedback.errors[k].played = "MISSING"
      ELSE /\ alignment[i] \in Candidates(i)
           /\ \A j \in Candidates(i) :
                \/ TimeDiff(i, alignment[i]) < TimeDiff(i, j)
                \/ TimeDiff(i, alignment[i]) = TimeDiff(i, j) /\ alignment[i] <= j

\* the performed notes no expected note was compared with
Unmatched == {j \in DOMAIN audio_analysis.notes : \A i \in DOMAIN alignment : alignment[i] # j}

\* C27: after all expected notes are processed (both sequences having notes),
\* the number of extra notes the pitch analysis reports equals the number of
\* performed notes that were not matched to any expected note
C27_ExtraEqualsUnmatched ==
  (PitchAnalysed /\ AlignmentDue) =>
    ExtraReported(pitch_feedback.errors) = Cardinality(Unmatched)

\* the wrong-pitch and MISSING entries of a pitch result
NoteErrors(errors) == {k \in DOMAIN errors : "position" \in DOMAIN errors[k]}

\* C28: the pitch detail of RealFeedbackGenerator holds at most 10 wrong-pitch or
\* missing entries, and whenever the performed notes outnumber the expected
\* notes it also holds an extra_notes entry whose count is
\* len(performed) - len(expected), however many wrong-pitch/missing entries
\* there are
C28_ErrorDetail ==
  (PitchAnalysed /\ generator = Real) =>
    /\ Cardinality(NoteErrors(pitch_feedback.errors)) <= MaxErrors
    /\ Len(audio_analysis.notes) > Len(sheet_music_analysis.notes) =>
         ExtraReported(pitch_feedback.errors)
           = Len(audio_analysis.notes) - Len(sheet_music_analysis.notes)

(***************************************************************************)
(* Consequences of the score tables for the template rules.                *)
(***************************************************************************)
\* C29: no input makes the template path emit the dynamic-contrast advice: a
\* non-empty dynamics series scores at least 70, the fallback for an empty
\* series (score 50) carries no variety label, so the condition score < 70 and
\* variety = "limited" is never satisfied
C29_NoDynamicsAdvice ==
  /\ (DynamicsCalled /\ Truthy(dynamics_feedback)) =>
       /\ IF audio_analysis.dynamics = <<>>
          THEN dynamics_feedback.score = 50 /\ "variety" \notin DOMAIN dynamics_feedback
          ELSE dynamics_feedback.score >= 70
       /\ ~DynamicsRule
  /\ (Recommended /\ TemplatePath) =>
       \A k \in DOMAIN recommendations : recommendations[k].rule # "dynamics"

\* the templates wrote the advice for a dynamics result below 70
C29_Witness ==
  /\ Recommended /\ TemplatePath
  /\ Truthy(dynamics_feedback)
  /\ dynamics_feedback.score < 70

\* C30: in both generators a rhythm score below 70 comes with the label
\* "needs_work" (the only score below 70 is 65, which takes the uneven-rhythm
\* penalty), so on the template path the metronome advice is emitted for every
\* rhythm score below 70
C30_LowRhythmNeedsWork ==
  /\ (RhythmAnalysed /\ rhythm_feedback.score < 70) =>
       /\ rhythm_feedback.score = 65
       /\ rhythm_feedback.rhythm_consistency = "needs_work"
       /\ \E k \in DOMAIN rhythm_feedback.issues :
            rhythm_feedback.issues[k].type = "uneven_rhythm"
  /\ (Recommended /\ TemplatePath /\ rhythm_feedback.score < 70) =>
       \E k \in DOMAIN recommendations : recommendations[k].rule = "rhythm"

\* the templates gave the metronome advice for a rhythm score of 65
C30_Witness ==
  /\ Recommended /\ TemplatePath
  /\ rhythm_feedback.score = 65
  /\ \E k \in DOMAIN recommendations : recommendations[k].rule = "rhythm"

====
